---- MODULE Spec2Model ----
(***************************************************************************)
(* Model of notebooks/custom-federated-algorithms-part-1.ipynb: the        *)
(* notebook's definition cells (computations decorated with                *)
(* tff.federated_computation / tff.tf_computation) and the direct          *)
(* invocation of the declared computations on in-memory literals.          *)
(*                                                                         *)
(* Numbers: a tf.float32 value is the rational <<n, d>> in lowest terms    *)
(* with d > 0 a power of two and at most 24 significant bits in n;         *)
(* <<0,0>> is NaN, <<1,0>> is +Inf and <<-1,0>> is -Inf.  Every literal    *)
(* and every arithmetic result is rounded to the nearest binary32 value,   *)
(* ties to even.  The exponent range of binary32 (overflow to an infinity, *)
(* subnormals) and the sign of zero are outside the magnitudes the model   *)
(* reaches and are not represented.                                        *)
(* Tensors of shape (None,) and tf.data sequences are TLA+ sequences;      *)
(* tensor indices are 0-based as in TensorFlow.                            *)
(***************************************************************************)
EXTENDS Integers, Sequences, FiniteSets

\* ------------------------------------------------------------------ bounds
\* number of clients in a generated federated argument
MaxClients == 2
\* length of one client's vector / sequence in a generated federated argument
MaxLen == 2
\* length of a generated vector / sequence handed to a local tf_computation
MaxLocalLen == 3
\* how often a session runs a definition cell that has already been run
MaxReruns == 1

\* ------------------------------------------------------- float arithmetic
Abs(n) == IF n < 0 THEN -n ELSE n

RECURSIVE GCD(_, _)
GCD(a, b) == IF b = 0 THEN a ELSE GCD(b, a % b)

NaN == <<0, 0>>

IsFinite(x) == x[2] # 0

IsNaN(x) == x = NaN

Sign(n) == IF n < 0 THEN -1 ELSE IF n = 0 THEN 0 ELSE 1

\* the rational n/d (d # 0) in lowest terms with a positive denominator
Norm(n, d) ==
    LET g == GCD(Abs(n), Abs(d))
    IN  <<Sign(d) * (n \div g), Abs(d) \div g>>

\* the number of bits of a binary32 significand
SignificandBits == 24

\* the quotient q (remainder r) of a division by d rounded to the nearest
\* integer, a tie going to the even one
RoundNearestEven(q, r, d) ==
    IF r = 0 \/ r < d - r THEN q
    ELSE IF r > d - r THEN q + 1
    ELSE IF q % 2 = 0 THEN q ELSE q + 1

\* the long division of a by d continued one binary digit at a time until
\* the quotient fills the significand or the division is exact: from
\* q = a \div d, r = a % d, s = 0 to <<q, r, s>> with q = (a * 2^s) \div d
RECURSIVE Significand(_, _, _, _)
Significand(q, r, d, s) ==
    IF q >= 2 ^ (SignificandBits - 1) \/ r = 0 THEN <<q, r, s>>
    ELSE IF r >= d - r THEN Significand(2 * q + 1, r - (d - r), d, s + 1)
    ELSE Significand(2 * q, 2 * r, d, s + 1)

\* the number of low bits an integer q loses to fit the significand
RECURSIVE Excess(_)
Excess(q) == IF q < 2 ^ SignificandBits THEN 0 ELSE 1 + Excess(q \div 2)

\* a magnitude a/d of 2^24 or more, with sign sg, rounded to a multiple of
\* unit / d (unit is d times the power of two that one last place is worth)
RoundToUnit(sg, a, d, unit) ==
    <<sg * RoundNearestEven(a \div unit, a % unit, unit) * (unit \div d), 1>>

\* a magnitude below 2^24, with sign sg, rounded at the last significand
\* bit: z is the result <<q, r, s>> of the long division by d
RoundSignificand(sg, z, d) ==
    Norm(sg * RoundNearestEven(z[1], z[2], d), 2 ^ z[3])

RoundMagnitude(sg, a, d) ==
    IF a \div d >= 2 ^ SignificandBits
    THEN RoundToUnit(sg, a, d, d * 2 ^ Excess(a \div d))
    ELSE RoundSignificand(sg, Significand(a \div d, a % d, d, 0), d)

\* the binary32 value nearest to the rational n/d (d > 0), ties to even
Round32(n, d) ==
    IF n = 0 THEN <<0, 1>> ELSE RoundMagnitude(Sign(n), Abs(n), d)

\* a Python number literal written as n/d (d > 0), e.g. 2.3 is F(23, 10),
\* converted to tf.float32
F(n, d) == Round32(n, d)

\* a whole-number Python literal converted to tf.float32: up to 2^24 every
\* whole number is a float32
Num(n) ==
    IF Abs(n) <= 2 ^ SignificandBits THEN <<n, 1>>
    ELSE RoundToUnit(Sign(n), Abs(n), 1, 2 ^ Excess(Abs(n)))

\* the exact sum of finite x and y over g, the GCD of their denominators,
\* rounded
AddOver(x, y, g) ==
    Round32(x[1] * (y[2] \div g) + y[1] * (x[2] \div g), x[2] * (y[2] \div g))

\* x + y on tf.float32
FAdd(x, y) ==
    IF IsFinite(x) /\ IsFinite(y) THEN AddOver(x, y, GCD(x[2], y[2]))
    ELSE IF IsNaN(x) \/ IsNaN(y) THEN NaN
    ELSE IF ~IsFinite(x) /\ ~IsFinite(y)
         THEN (IF x = y THEN x ELSE NaN)
    ELSE IF IsFinite(x) THEN y ELSE x

\* the number of factors 2 of n > 0, and n without them
RECURSIVE Twos(_)
Twos(n) == IF n % 2 = 1 THEN 0 ELSE 1 + Twos(n \div 2)

OddPart(n) == n \div 2 ^ Twos(n)

\* the number of binary digits of n >= 0
RECURSIVE Bits(_)
Bits(n) == IF n = 0 THEN 0 ELSE 1 + Bits(n \div 2)

\* a finite non-zero float32 x is OddPart(|n|) * 2^Exponent(x)
Exponent(x) == Twos(Abs(x[1])) - Twos(x[2])

\* half a significand: a 24-bit a is HighHalf(a) * 2^12 + LowHalf(a)
HalfWord == 2 ^ (SignificandBits \div 2)

HighHalf(a) == a \div HalfWord

LowHalf(a) == a % HalfWord

\* the 48-bit product of two significands as <<h, l>>, h * 2^24 + l with
\* l < 2^24, from the products of their halves
MiddleProduct(a, b) == HighHalf(a) * LowHalf(b) + LowHalf(a) * HighHalf(b)

LowSum(a, b) ==
    LowHalf(a) * LowHalf(b) + (MiddleProduct(a, b) % HalfWord) * HalfWord

WideProduct(a, b) ==
    <<HighHalf(a) * HighHalf(b) + MiddleProduct(a, b) \div HalfWord
          + LowSum(a, b) \div 2 ^ SignificandBits,
      LowSum(a, b) % 2 ^ SignificandBits>>

\* the whole number n times 2^k as a float
Scale(n, k) == IF k >= 0 THEN <<n * 2 ^ k, 1>> ELSE Norm(n, 2 ^ (-k))

\* the product p = <<h, l>> times 2^e, with sign sg, rounded: the s digits
\* of h are so many digits more than a significand holds
RoundWide(sg, p, s, e) ==
    Scale(sg * RoundNearestEven(p[1] * 2 ^ (SignificandBits - s)
                                    + p[2] \div 2 ^ s,
                                p[2] % 2 ^ s, 2 ^ s),
          s + e)

\* the product of finite non-zero x and y, p the product of their odd parts
MulOver(x, y, p) ==
    RoundWide(Sign(x[1]) * Sign(y[1]), p, Bits(p[1]),
              Exponent(x) + Exponent(y))

\* x * y on tf.float32
FMul(x, y) ==
    IF IsFinite(x) /\ IsFinite(y)
    THEN (IF x[1] = 0 \/ y[1] = 0 THEN <<0, 1>>
          ELSE MulOver(x, y, WideProduct(OddPart(Abs(x[1])),
                                         OddPart(Abs(y[1])))))
    ELSE IF IsNaN(x) \/ IsNaN(y) \/ x[1] = 0 \/ y[1] = 0 THEN NaN
    ELSE <<Sign(x[1]) * Sign(y[1]), 0>>

\* the exact quotient of finite x by finite y # 0 over g, the GCD of their
\* denominators, rounded
DivOver(x, y, g) ==
    Round32(Sign(y[1]) * x[1] * (y[2] \div g), (x[2] \div g) * Abs(y[1]))

\* mutant of FDiv: a division by zero is guarded and gives 0
\* (tf.math.divide_no_nan)
FDiv_no_nan(x, y) ==
    IF IsNaN(x) \/ IsNaN(y) THEN NaN
    ELSE IF IsFinite(y) /\ y[1] = 0 THEN <<0, 1>>
    ELSE IF IsFinite(x) /\ IsFinite(y) THEN DivOver(x, y, GCD(x[2], y[2]))
    ELSE IF ~IsFinite(x) /\ ~IsFinite(y) THEN NaN
    ELSE IF IsFinite(x) THEN <<0, 1>>
    ELSE <<x[1] * (IF y[1] < 0 THEN -1 ELSE 1), 0>>

\* x / y on tf.float32: 0/0 is NaN, a non-zero value over 0 is an infinity
FDiv(x, y) ==
    IF IsNaN(x) \/ IsNaN(y) THEN NaN
    ELSE IF IsFinite(x) /\ IsFinite(y)
         THEN (IF y[1] # 0 THEN DivOver(x, y, GCD(x[2], y[2]))
               ELSE IF x[1] = 0 THEN NaN
               ELSE <<Sign(x[1]), 0>>)
    ELSE IF ~IsFinite(x) /\ ~IsFinite(y) THEN NaN
    ELSE IF IsFinite(x) THEN <<0, 1>>
    ELSE <<x[1] * (IF y[1] < 0 THEN -1 ELSE 1), 0>>

\* x < y over g, the GCD of the denominators
LessOver(x, y, g) == x[1] * (y[2] \div g) < y[1] * (x[2] \div g)

\* x < y on finite values
FLess(x, y) == LessOver(x, y, GCD(x[2], y[2]))

\* ------------------------------------------------------- TensorFlow ops
\* mutant of tf_abs: the sign is kept, so top_k ranks signed values
tf_abs_keeps_sign(t) == t

\* tf.abs, elementwise
tf_abs(t) == [i \in 1..Len(t) |-> <<Abs(t[i][1]), t[i][2]>>]

\* mutant of tf_zeros_like: the tensor itself is returned, so the update is
\* added onto the gradients
tf_zeros_like_copies(t) == t

\* tf.zeros_like
tf_zeros_like(t) == [i \in 1..Len(t) |-> Num(0)]

\* mutant of tf_top_k: every entry that ties for the largest is returned
tf_top_k_with_ties(input, k) ==
    LET ties == {i \in 1..Len(input) :
                    \A j \in 1..Len(input) : ~FLess(input[i], input[j])}
        at(p) == CHOOSE i \in ties : Cardinality({j \in ties : j < i}) = p - 1
    IN  [values  |-> [p \in 1..Cardinality(ties) |-> input[at(p)]],
         indices |-> [p \in 1..Cardinality(ties) |-> at(p) - 1]]

\* tf.math.top_k(input, k): the k largest entries in descending order and
\* their 0-based indices; of two equal entries the lower index comes first
tf_top_k(input, k) ==
    LET before(j, i) == FLess(input[i], input[j])
                        \/ (input[j] = input[i] /\ j < i)
        rank(i) == Cardinality({j \in 1..Len(input) : before(j, i)})
        at(p) == CHOOSE i \in 1..Len(input) : rank(i) = p - 1
    IN  [values  |-> [p \in 1..k |-> input[at(p)]],
         indices |-> [p \in 1..k |-> at(p) - 1]]

\* tf.gather(params, indices) on a vector
tf_gather(params, indices) ==
    [p \in 1..Len(indices) |-> params[indices[p] + 1]]

\* tf.expand_dims(indices, axis=1): shape (k,) becomes shape (k, 1)
tf_expand_dims(indices) == [p \in 1..Len(indices) |-> <<indices[p]>>]

\* tf.tensor_scatter_nd_add(tensor, indices, updates) on a vector: update p
\* is added to the entry at indices[p][0], updates applied one after another
tf_tensor_scatter_nd_add(tensor, indices, updates) ==
    LET r[p \in 0..Len(indices)] ==
            IF p = 0 THEN tensor
            ELSE [r[p - 1] EXCEPT ![indices[p][1] + 1] = FAdd(@, updates[p])]
    IN  r[Len(indices)]

\* ------------------------------------------------ federated values / ops
\* a value of federated type: {T}@CLIENTS is one member per client,
\* T@SERVER a single member; an unplaced TensorFlow value has one member
CLIENTS == "CLIENTS"

SERVER == "SERVER"

UNPLACED == "UNPLACED"

FederatedValue(placement, all_equal, members) ==
    [placement |-> placement, all_equal |-> all_equal, members |-> members]

\* a Python list fed where a {T}@CLIENTS value is expected
AtClients(list) == FederatedValue(CLIENTS, FALSE, list)

\* a Python value fed to / returned by a tf_computation
Local(x) == FederatedValue(UNPLACED, TRUE, <<x>>)

\* what the caller gets back: the list of members of an all_equal=False
\* value, the single member otherwise
Returned(v) == IF v.all_equal THEN v.members[1] ELSE v.members

\* the sum of a sequence of floats, accumulated left to right
FSum(xs) ==
    LET r[i \in 0..Len(xs)] ==
            IF i = 0 THEN Num(0) ELSE FAdd(r[i - 1], xs[i])
    IN  r[Len(xs)]

\* the distinct member constituents of a federated value
Members(value) == {value.members[i] : i \in 1..Len(value.members)}

\* mutant of federated_map: the mapped members are collected at the server
federated_map_to_server(fn, value) ==
    FederatedValue(SERVER, TRUE,
                   [i \in 1..Len(value.members) |-> fn[value.members[i]]])

\* tff.federated_map(fn, value): fn (a function on the member constituents)
\* applied to every member, the result staying where the value is placed
federated_map(fn, value) ==
    FederatedValue(value.placement, value.all_equal,
                   [i \in 1..Len(value.members) |-> fn[value.members[i]]])

\* the float32 reciprocal 1/n of a number n of clients
Reciprocal(n) == FDiv(Num(1), Num(n))

\* mutant of federated_mean: the mean is handed to every client instead of
\* being placed at the server
federated_mean_at_clients(value) ==
    FederatedValue(CLIENTS, FALSE,
        [i \in 1..Len(value.members) |->
            FMul(FSum(value.members), Reciprocal(Len(value.members)))])

\* mutant of federated_mean: the sum is not divided by the number of clients
federated_mean_as_sum(value) ==
    FederatedValue(SERVER, TRUE, <<FSum(value.members)>>)

\* tff.federated_mean(value): {T}@CLIENTS -> T@SERVER, the federated sum
\* multiplied by the float32 reciprocal of the number of clients (of which
\* there is one at least: an empty list of clients is rejected)
federated_mean(value) ==
    FederatedValue(SERVER, TRUE,
        <<FMul(FSum(value.members), Reciprocal(Len(value.members)))>>)

\* mutant of federated_weighted_mean: the weights are ignored
federated_weighted_mean_ignores_weight(value, weight) ==
    FederatedValue(SERVER, TRUE,
        <<FDiv(FSum(value.members), Num(Len(value.members)))>>)

\* mutant of federated_weighted_mean: every value is weighted by the first
\* client's weight instead of its own
federated_weighted_mean_first_weight(value, weight) ==
    FederatedValue(SERVER, TRUE,
        <<FDiv(FSum([i \in 1..Len(value.members) |->
                        FMul(weight.members[1], value.members[i])]),
               FSum(weight.members))>>)

\* tff.federated_mean(value, weight): sum_i(w_i * v_i) / sum_i(w_i) at SERVER
federated_weighted_mean(value, weight) ==
    FederatedValue(SERVER, TRUE,
        <<FDiv(FSum([i \in 1..Len(value.members) |->
                        FMul(weight.members[i], value.members[i])]),
               FSum(weight.members))>>)

\* ------------------------------------------------ the notebook's computations
hello_world == FederatedValue(UNPLACED, TRUE, <<"Hello, World!">>)

compute_average_temperature(sensor_readings) ==
    federated_mean(sensor_readings)

top_1_compression(gradients) ==
    LET indices == tf_top_k(tf_abs(gradients), 1).indices
        updates == tf_gather(gradients, indices)
        compressed_gradients ==
            tf_tensor_scatter_nd_add(tf_zeros_like(gradients),
                                     tf_expand_dims(indices),
                                     updates)
    IN  compressed_gradients

\* mutant of federated_top_1_compression: every client gets the compression
\* of the first client's vector
federated_top_1_compression_of_first(gradients) ==
    FederatedValue(gradients.placement, gradients.all_equal,
        [i \in 1..Len(gradients.members) |->
            top_1_compression(gradients.members[1])])

federated_top_1_compression(gradients) ==
    federated_map([g \in Members(gradients) |-> top_1_compression(g)],
                  gradients)

\* mutant of local_average_step: the count is set to 1 instead of incremented
local_average_step_count_one(x, y) == <<FAdd(x[1], y), Num(1)>>

local_average_step(x, y) == <<FAdd(x[1], y), FAdd(x[2], Num(1))>>

\* temperatures.reduce(initial_state, reduce_func) is one left-to-right fold;
\* it returns the pair (total, n_obs)
local_average_reduce(temperatures) ==
    LET reduce[i \in 0..Len(temperatures)] ==
            IF i = 0 THEN <<Num(0), Num(0)>>
            ELSE local_average_step(reduce[i - 1], temperatures[i])
    IN  reduce[Len(temperatures)]

compute_local_average(temperatures) ==
    LET state == local_average_reduce(temperatures)
        total == state[1]
        n_obs == state[2]
    IN  FDiv(total, n_obs)

number_obs_step(x, y) == FAdd(x, Num(1))

\* mutant of compute_number_obs: the count starts at 1.0 instead of 0.0
compute_number_obs_from_one(temperatures) ==
    LET reduce[i \in 0..Len(temperatures)] ==
            IF i = 0 THEN Num(1)
            ELSE number_obs_step(reduce[i - 1], temperatures[i])
    IN  reduce[Len(temperatures)]

compute_number_obs(temperatures) ==
    LET reduce[i \in 0..Len(temperatures)] ==
            IF i = 0 THEN Num(0)
            ELSE number_obs_step(reduce[i - 1], temperatures[i])
        size == reduce[Len(temperatures)]
    IN  size

federated_local_average(sensor_readings) ==
    federated_map([s \in Members(sensor_readings) |->
                      compute_local_average(s)],
                  sensor_readings)

federated_number_obs(sensor_readings) ==
    federated_map([s \in Members(sensor_readings) |-> compute_number_obs(s)],
                  sensor_readings)

\* the notebook's "quick check by hand" cell, (2*69 + 71 + 3*70)/6: Python
\* divides in float64, finer than any float32; the quotient is kept as the
\* fraction <<numerator, denominator>>
HandCheck == <<2 * 69 + 71 + 3 * 70, 6>>

federated_global_average(sensor_readings) ==
    LET weights == federated_number_obs(sensor_readings)
    IN  federated_weighted_mean(federated_local_average(sensor_readings),
                                weights)

\* ------------------------------------------------------------- inputs
SeqsOf(S, lo, hi) == UNION {[1..n -> S] : n \in lo..hi}

\* the parameter types the notebook declares, in TFF's compact notation
\* a computation declared without a parameter is called with no argument
NO_PARAMETER == "()"

SENSOR_READINGS_TYPE == "{float32}@CLIENTS"

COMPRESSOR_TYPE == "float32[?]"

FEDERATED_COMPRESSOR_TYPE == "{float32[?]}@CLIENTS"

SEQUENCE_TYPE == "float32*"

FEDERATED_SEQUENCE_TYPE == "{float32*}@CLIENTS"

ParameterTypes ==
    {NO_PARAMETER, SENSOR_READINGS_TYPE, COMPRESSOR_TYPE, FEDERATED_COMPRESSOR_TYPE,
     SEQUENCE_TYPE, FEDERATED_SEQUENCE_TYPE}

\* per-client sensor readings (one float per client)
Temperatures == {F(23, 10), F(45, 10), F(67, 10)}

\* gradient vectors (non-empty: tf.math.top_k with k=1 rejects an empty one)
GradientValues == {Num(-2), Num(0), Num(1), Num(2)}

ClientGradientValues == {Num(1), Num(-2)}

\* sequences of readings (a tf.data sequence may be empty)
ReadingValues == {Num(1), Num(2), Num(4)}

ClientReadingValues == {Num(1), Num(2)}

\* the literals of the notebook's own invocation cells, by parameter type
NotebookLiterals ==
    [t \in ParameterTypes |->
        CASE t = NO_PARAMETER -> {<<>>}
          [] t = SENSOR_READINGS_TYPE ->
                {<<F(23, 10), F(45, 10), F(67, 10)>>}
          [] t = COMPRESSOR_TYPE ->
                {<<Num(1), Num(2), Num(3), Num(4), Num(-5)>>}
          [] t = FEDERATED_COMPRESSOR_TYPE ->
                {<< <<Num(1), Num(2), Num(3), Num(4), Num(-5)>>,
                    <<Num(10), Num(2), Num(3), Num(4), Num(-5), Num(6)>>,
                    <<Num(1), Num(2), Num(3), Num(4)>> >>}
          [] t = SEQUENCE_TYPE ->
                {<<Num(1), Num(2), Num(3), Num(4), Num(5)>>}
          [] t = FEDERATED_SEQUENCE_TYPE ->
                {<< <<Num(68), Num(70)>>, <<Num(71)>>,
                    <<Num(68), Num(72), Num(70)>> >>}]

\* literals at the edge of float32 precision: 2^24 + 1 is not a float32, so
\* a literal above 2^24 is rounded when it becomes a float32 tensor, a sum
\* that passes 2^24 rounds, 3 * (15784393 / 3) is not 15784393, and
\* 5 * (1 / 3) is not the float32 nearest to 5 / 3
RoundingLiterals ==
    [t \in ParameterTypes |->
        CASE t = NO_PARAMETER -> {}
          [] t = SENSOR_READINGS_TYPE ->
                {<<Num(16777216), Num(1), Num(1)>>,
                 <<Num(1), Num(1), Num(16777216)>>,
                 <<Num(16777214), Num(1), Num(1)>>,
                 <<Num(1), Num(2), Num(2)>>}
          [] t = COMPRESSOR_TYPE ->
                {<<Num(16777216), Num(16777217)>>,
                 <<Num(16777217), Num(-16777216)>>}
          [] t = FEDERATED_COMPRESSOR_TYPE -> {}
          [] t = SEQUENCE_TYPE ->
                {<<Num(16777216), Num(1), Num(1)>>,
                 <<Num(1), Num(1), Num(16777216)>>}
          [] t = FEDERATED_SEQUENCE_TYPE ->
                {<< <<Num(16777216), Num(1), Num(1)>> >>,
                 << <<Num(1), Num(1), Num(16777216)>> >>,
                 << <<Num(16777216)>>, <<Num(1), Num(1)>> >>,
                 << <<Num(16777216)>>, <<Num(1)>>, <<Num(1)>> >>,
                 << <<Num(15784393), Num(0), Num(0)>>, <<Num(1)>> >>}]

\* generated literals of parameter type t
GeneratedLiterals(t) ==
    CASE t = NO_PARAMETER -> {<<>>}
      [] t = SENSOR_READINGS_TYPE ->
            SeqsOf(Temperatures, 0, MaxClients)
      [] t = COMPRESSOR_TYPE ->
            SeqsOf(GradientValues, 1, MaxLocalLen)
      [] t = FEDERATED_COMPRESSOR_TYPE ->
            SeqsOf(SeqsOf(ClientGradientValues, 1, MaxLen), 1, MaxClients)
      [] t = SEQUENCE_TYPE ->
            SeqsOf(ReadingValues, 0, MaxLocalLen)
      [] t = FEDERATED_SEQUENCE_TYPE ->
            SeqsOf(SeqsOf(ClientReadingValues, 0, MaxLen), 1, MaxClients)

\* --------------------------------------------------------------- state
Computations ==
    {"hello_world", "compute_average_temperature", "top_1_compression",
     "federated_top_1_compression", "compute_local_average",
     "compute_number_obs", "federated_local_average",
     "federated_number_obs", "federated_global_average"}

VARIABLES
    literals,     \* per parameter type: the arguments the session feeds
    defined,      \* per computation: how often its def statement has run
    serialized,   \* per computation: the representation built by the decorator
    last          \* the latest invocation: computation, input, result

vars == <<literals, defined, serialized, last>>

NoRepresentation == [kind |-> "none", body |-> ""]

\* tff.federated_computation: the body becomes a glue-language term
FEDERATED_COMPUTATION == "federated"

\* tff.tf_computation: the body becomes a TensorFlow graph
TF_COMPUTATION == "tensorflow"

\* the serialized representation a decorator builds from the body of name
Representation(decorator, name) == [kind |-> decorator, body |-> name]

IsDefined(c) == serialized[c] # NoRepresentation

\* the type given to the decorator of computation c
ParameterType(c) ==
    CASE c = "hello_world" -> NO_PARAMETER
      [] c = "compute_average_temperature" -> SENSOR_READINGS_TYPE
      [] c = "top_1_compression" -> COMPRESSOR_TYPE
      [] c = "federated_top_1_compression" -> FEDERATED_COMPRESSOR_TYPE
      [] c \in {"compute_local_average", "compute_number_obs"} ->
            SEQUENCE_TYPE
      [] c \in {"federated_local_average", "federated_number_obs",
                "federated_global_average"} -> FEDERATED_SEQUENCE_TYPE

\* the federated values a serialized computation materializes on argument
\* arg, in evaluation order: its parameter, the results of the computations
\* embedded in it, and its own result last
Execute(rep, arg) ==
    CASE rep.body = "hello_world" ->
            <<hello_world>>
      [] rep.body = "compute_average_temperature" ->
            <<AtClients(arg), compute_average_temperature(AtClients(arg))>>
      [] rep.body = "top_1_compression" ->
            <<Local(arg), Local(top_1_compression(arg))>>
      [] rep.body = "federated_top_1_compression" ->
            <<AtClients(arg), federated_top_1_compression(AtClients(arg))>>
      [] rep.body = "compute_local_average" ->
            <<Local(arg), Local(compute_local_average(arg))>>
      [] rep.body = "compute_number_obs" ->
            <<Local(arg), Local(compute_number_obs(arg))>>
      [] rep.body = "federated_local_average" ->
            <<AtClients(arg), federated_local_average(AtClients(arg))>>
      [] rep.body = "federated_number_obs" ->
            <<AtClients(arg), federated_number_obs(AtClients(arg))>>
      [] rep.body = "federated_global_average" ->
            <<AtClients(arg),
              federated_number_obs(AtClients(arg)),
              federated_local_average(AtClients(arg)),
              federated_global_average(AtClients(arg))>>

\* the record of invoking computation c on arg: the result is the value
\* materialized last, placements are those of all materialized values in
\* order (the parameter's first, the result's last)
Invocation(c, arg) ==
    LET values == Execute(serialized[c], arg)
    IN  [comp |-> c, input |-> arg,
         result |-> values[Len(values)],
         placements |-> [i \in 1..Len(values) |-> values[i].placement]]

NoInvocation ==
    [comp |-> "", input |-> <<>>,
     result |-> FederatedValue(UNPLACED, TRUE, <<>>), placements |-> <<>>]

\* a fresh kernel: nothing is defined; the session feeds the notebook's own
\* literals
Init ==
    /\ literals = NotebookLiterals
    /\ defined = [c \in Computations |-> 0]
    /\ serialized = [c \in Computations |-> NoRepresentation]
    /\ last = NoInvocation

\* the definition cells, each the set of functions it defines, top to bottom
HelloWorldCell == {"hello_world"}

ComputeAverageTemperatureCell == {"compute_average_temperature"}

Top1CompressionCell == {"top_1_compression"}

FederatedTop1CompressionCell == {"federated_top_1_compression"}

LocalReductionsCell == {"compute_local_average", "compute_number_obs"}

FederatedAveragesCell ==
    {"federated_local_average", "federated_number_obs",
     "federated_global_average"}

Cells ==
    <<HelloWorldCell, ComputeAverageTemperatureCell, Top1CompressionCell,
      FederatedTop1CompressionCell, LocalReductionsCell,
      FederatedAveragesCell>>

\* the decorator on the functions of each cell
Decorator(c) ==
    IF c \in Top1CompressionCell \cup LocalReductionsCell
    THEN TF_COMPUTATION ELSE FEDERATED_COMPUTATION

\* how often cell has been run
Runs(cell) == defined[CHOOSE c \in cell : TRUE]

\* how often the session has run a cell that had been run before
Reruns ==
    LET r[i \in 0..Len(Cells)] ==
            IF i = 0 THEN 0
            ELSE r[i - 1] + (IF Runs(Cells[i]) > 1
                             THEN Runs(Cells[i]) - 1 ELSE 0)
    IN  r[Len(Cells)]

\* a definition cell runs to its end when the computations its bodies name
\* (needs) are bound; cells can be run in any order and run again
Runnable(cell, needs) ==
    /\ \A c \in needs : IsDefined(c)
    /\ Runs(cell) = 0 \/ Reruns < MaxReruns

\* the decorator applied to every function of a definition cell: the
\* serialized representation of the body is bound to the name
Decorate(cell, decorator) ==
    /\ defined' = [c \in Computations |->
                      IF c \in cell THEN defined[c] + 1 ELSE defined[c]]
    /\ serialized' = [c \in Computations |->
                        IF c \in cell THEN Representation(decorator, c)
                        ELSE serialized[c]]
    /\ UNCHANGED <<literals, last>>

DefineHelloWorld ==
    /\ Runnable(HelloWorldCell, {})
    /\ Decorate(HelloWorldCell, FEDERATED_COMPUTATION)

DefineComputeAverageTemperature ==
    /\ Runnable(ComputeAverageTemperatureCell, {})
    /\ Decorate(ComputeAverageTemperatureCell, FEDERATED_COMPUTATION)

DefineTop1Compression ==
    /\ Runnable(Top1CompressionCell, {})
    /\ Decorate(Top1CompressionCell, TF_COMPUTATION)

DefineFederatedTop1Compression ==
    /\ Runnable(FederatedTop1CompressionCell, Top1CompressionCell)
    /\ Decorate(FederatedTop1CompressionCell, FEDERATED_COMPUTATION)

DefineLocalReductions ==
    /\ Runnable(LocalReductionsCell, {})
    /\ Decorate(LocalReductionsCell, TF_COMPUTATION)

DefineFederatedAverages ==
    /\ Runnable(FederatedAveragesCell, LocalReductionsCell)
    /\ Decorate(FederatedAveragesCell, FEDERATED_COMPUTATION)

\* the arguments computation c runs on: tff.federated_mean needs one client
\* at least, tf.math.top_k with k=1 one entry at least
Accepts(c, arg) ==
    /\ c \in {"compute_average_temperature", "federated_global_average",
              "top_1_compression"} => Len(arg) >= 1
    /\ c = "federated_top_1_compression" =>
          \A i \in 1..Len(arg) : Len(arg[i]) >= 1

\* calling a declared computation as an ordinary Python callable
Invoke(c, arg) ==
    /\ IsDefined(c)
    /\ Accepts(c, arg)
    /\ last' = Invocation(c, arg)
    /\ UNCHANGED <<literals, defined, serialized>>

InvokeHelloWorld ==
    \E arg \in literals[ParameterType("hello_world")] :
        Invoke("hello_world", arg)

InvokeComputeAverageTemperature ==
    \E arg \in literals[ParameterType("compute_average_temperature")] :
        Invoke("compute_average_temperature", arg)

InvokeTop1Compression ==
    \E arg \in literals[ParameterType("top_1_compression")] :
        Invoke("top_1_compression", arg)

InvokeFederatedTop1Compression ==
    \E arg \in literals[ParameterType("federated_top_1_compression")] :
        Invoke("federated_top_1_compression", arg)

InvokeComputeLocalAverage ==
    \E arg \in literals[ParameterType("compute_local_average")] :
        Invoke("compute_local_average", arg)

InvokeComputeNumberObs ==
    \E arg \in literals[ParameterType("compute_number_obs")] :
        Invoke("compute_number_obs", arg)

InvokeFederatedLocalAverage ==
    \E arg \in literals[ParameterType("federated_local_average")] :
        Invoke("federated_local_average", arg)

InvokeFederatedNumberObs ==
    \E arg \in literals[ParameterType("federated_number_obs")] :
        Invoke("federated_number_obs", arg)

InvokeFederatedGlobalAverage ==
    \E arg \in literals[ParameterType("federated_global_average")] :
        Invoke("federated_global_average", arg)

Next ==
    \/ DefineHelloWorld
    \/ DefineComputeAverageTemperature
    \/ DefineTop1Compression
    \/ DefineFederatedTop1Compression
    \/ DefineLocalReductions
    \/ DefineFederatedAverages
    \/ InvokeHelloWorld
    \/ InvokeComputeAverageTemperature
    \/ InvokeTop1Compression
    \/ InvokeFederatedTop1Compression
    \/ InvokeComputeLocalAverage
    \/ InvokeComputeNumberObs
    \/ InvokeFederatedLocalAverage
    \/ InvokeFederatedNumberObs
    \/ InvokeFederatedGlobalAverage

Spec == Init /\ [][Next]_vars

\* the session after each of the six definition cells has been run once,
\* cell by cell (a Run All of the notebook stops earlier: the cell
\* `tff.federated_` raises AttributeError, and only hello_world and
\* compute_average_temperature are bound by then); the session then feeds
\* one generated literal, one literal on which float32 sums round, or the
\* notebook's own literals
InitDefined ==
    /\ \/ \E t \in ParameterTypes :
            \E v \in GeneratedLiterals(t) \cup RoundingLiterals[t] :
                literals = [u \in ParameterTypes |-> IF u = t THEN {v} ELSE {}]
       \/ literals = NotebookLiterals
    /\ defined = [c \in Computations |-> 1]
    /\ serialized = [c \in Computations |-> Representation(Decorator(c), c)]
    /\ last = NoInvocation

\* no computation has been invoked yet
NothingInvoked == last = NoInvocation

\* one invocation cell, run on the drawn input
NextInvoke ==
    \/ NothingInvoked /\ InvokeHelloWorld
    \/ NothingInvoked /\ InvokeComputeAverageTemperature
    \/ NothingInvoked /\ InvokeTop1Compression
    \/ NothingInvoked /\ InvokeFederatedTop1Compression
    \/ NothingInvoked /\ InvokeComputeLocalAverage
    \/ NothingInvoked /\ InvokeComputeNumberObs
    \/ NothingInvoked /\ InvokeFederatedLocalAverage
    \/ NothingInvoked /\ InvokeFederatedNumberObs
    \/ NothingInvoked /\ InvokeFederatedGlobalAverage

\* a computation applied to a drawn input once every definition cell has run
SpecDefined == InitDefined /\ [][NextInvoke]_vars

\* ---------------------------------------------------------------- claims
\* arithmetic the claims are stated in: integer sums over the readings
IntSum(ns) ==
    LET r[i \in 0..Len(ns)] == IF i = 0 THEN 0 ELSE r[i - 1] + ns[i]
    IN  r[Len(ns)]

\* the integer readings of a sequence of whole-numbered floats
Whole(xs) == [i \in 1..Len(xs) |-> xs[i][1]]

\* the largest denominator of a list of finite floats: the finest unit
RECURSIVE MaxDenominator(_)
MaxDenominator(xs) ==
    IF xs = <<>> THEN 1
    ELSE IF Head(xs)[2] > MaxDenominator(Tail(xs)) THEN Head(xs)[2]
    ELSE MaxDenominator(Tail(xs))

\* the finite floats xs as whole multiples of 1/d
UnitsOver(xs, d) == [i \in 1..Len(xs) |-> xs[i][1] * (d \div xs[i][2])]

\* the floats xs are finite and non-negative and their sum has no more than
\* 24 significant bits at the finest unit of xs: every partial sum, taken in
\* any order, is a float32, so no float32 addition of them rounds
ExactlySummable(xs) ==
    /\ \A i \in 1..Len(xs) : IsFinite(xs[i]) /\ xs[i][1] >= 0
    /\ IntSum(UnitsOver(xs, MaxDenominator(xs))) <= 2 ^ SignificandBits

\* the float32 nearest to the arithmetic mean of the finite floats xs
ExactMean(xs) ==
    Round32(IntSum(UnitsOver(xs, MaxDenominator(xs))),
            MaxDenominator(xs) * Len(xs))

AllClientsNonEmpty(arg) == \A i \in 1..Len(arg) : Len(arg[i]) >= 1

\* per client of arg: the number of readings, the float32 sum of the
\* readings, and the count-weighted local average n_i * avg_i
ClientCounts(arg) == [i \in 1..Len(arg) |-> Num(Len(arg[i]))]

ClientSums(arg) == [i \in 1..Len(arg) |-> FSum(arg[i])]

WeightedAverages(arg) ==
    [i \in 1..Len(arg) |->
        FMul(Num(Len(arg[i])), FDiv(FSum(arg[i]), Num(Len(arg[i]))))]

\* the total number of readings of all clients
TotalCount(arg) == IntSum([i \in 1..Len(arg) |-> Len(arg[i])])

GlobalAverageLiteral ==
    << <<Num(68), Num(70)>>, <<Num(71)>>, <<Num(68), Num(72), Num(70)>> >>

\* C1 as stated: on every non-empty group of clients that each hold a
\* non-empty sequence, federated_global_average returns
\* sum_i(n_i * avg_i) / sum_i(n_i) with n_i the number of readings of client
\* i and avg_i their mean, which is the sum of all readings (the clients'
\* sums added up) divided by the total number of readings.
C1_WeightedMeanIsMeanOfAllReadings ==
    (last.comp = "federated_global_average"
        /\ Len(last.input) >= 1 /\ AllClientsNonEmpty(last.input)) =>
    /\ Returned(last.result) =
          FDiv(FSum(WeightedAverages(last.input)),
               FSum(ClientCounts(last.input)))
    /\ Returned(last.result) =
          FDiv(FSum(ClientSums(last.input)), Num(TotalCount(last.input)))

\* C1 amended: on every non-empty group of clients that each hold a
\* non-empty sequence, federated_global_average returns
\* sum_i(n_i * avg_i) / sum_i(n_i) in float32 arithmetic, with n_i the number
\* of readings of client i and avg_i the float32 quotient of their sum by
\* n_i.  Whenever every product n_i * avg_i gives back the sum of client i,
\* this is the sum of all readings divided by the total number of readings;
\* when moreover no sum rounds, it is the float32 nearest to the arithmetic
\* mean of all readings.
C1_WeightedMeanOfLocalAverages ==
    (last.comp = "federated_global_average"
        /\ Len(last.input) >= 1 /\ AllClientsNonEmpty(last.input)) =>
    /\ Returned(last.result) =
          FDiv(FSum(WeightedAverages(last.input)),
               FSum(ClientCounts(last.input)))
    /\ WeightedAverages(last.input) = ClientSums(last.input) =>
          /\ Returned(last.result) =
                FDiv(FSum(ClientSums(last.input)),
                     Num(TotalCount(last.input)))
          /\ ((\A i \in 1..Len(last.input) : ExactlySummable(last.input[i]))
                  /\ ExactlySummable(ClientSums(last.input))) =>
                Returned(last.result) =
                    F(IntSum([i \in 1..Len(last.input) |->
                                 IntSum(Whole(last.input[i]))]),
                      TotalCount(last.input))

\* C1 witness: clients with different numbers of readings whose products
\* n_i * avg_i give back their sums, where the result is the mean of all
\* readings and differs from the unweighted mean of the local averages
C1_Witness ==
    /\ last.comp = "federated_global_average"
    /\ Len(last.input) >= 2 /\ AllClientsNonEmpty(last.input)
    /\ \E i, j \in 1..Len(last.input) : Len(last.input[i]) # Len(last.input[j])
    /\ WeightedAverages(last.input) = ClientSums(last.input)
    /\ \A i \in 1..Len(last.input) : ExactlySummable(last.input[i])
    /\ ExactlySummable(ClientSums(last.input))
    /\ Returned(last.result) =
          F(IntSum([i \in 1..Len(last.input) |-> IntSum(Whole(last.input[i]))]),
            TotalCount(last.input))
    /\ LET avg == [i \in 1..Len(last.input) |->
                      FDiv(FSum(last.input[i]), Num(Len(last.input[i])))]
       IN  Returned(last.result) # FDiv(FSum(avg), Num(Len(avg)))

\* C2 as stated: on [[68.0, 70.0], [71.0], [68.0, 72.0, 70.0]] the output of
\* federated_global_average equals (to float32 precision) the hand check
\* (2*69 + 71 + 3*70) / 6, and that value equals 70.0.
C2_HandCheckIsSeventy ==
    (last.comp = "federated_global_average"
        /\ last.input = GlobalAverageLiteral) =>
    /\ Returned(last.result) = Round32(HandCheck[1], HandCheck[2])
    /\ HandCheck[1] = 70 * HandCheck[2]

\* C2 amended: on [[68.0, 70.0], [71.0], [68.0, 72.0, 70.0]] the output of
\* federated_global_average is the float32 nearest to the hand check
\* (2*69 + 71 + 3*70) / 6, and that value is 419/6 (about 69.83), not 70.0.
C2_HandCheckIs419Sixths ==
    (last.comp = "federated_global_average"
        /\ last.input = GlobalAverageLiteral) =>
    /\ Returned(last.result) = Round32(HandCheck[1], HandCheck[2])
    /\ HandCheck[1] * 6 = 419 * HandCheck[2]
    /\ HandCheck[1] # 70 * HandCheck[2]
    /\ Returned(last.result) # Num(70)

\* C2 witness: the notebook's invocation has returned the float32 nearest
\* to 419/6, which is 9153195/131072 (printed as 69.833336)
C2_Witness ==
    /\ last.comp = "federated_global_average"
    /\ last.input = GlobalAverageLiteral
    /\ Returned(last.result) = <<9153195, 131072>>

\* the absolute values of the finite floats xs as whole multiples of 1/d
AbsUnitsOver(xs, d) ==
    [i \in 1..Len(xs) |-> Abs(xs[i][1]) * (d \div xs[i][2])]

\* the float r differs from the rational a/b (b > 0) by at most parts/2^23
\* of the rational m/b (m >= 0); g is the GCD of r's denominator and b
CloseOver(r, a, m, b, parts, g) ==
    Abs(r[1] * (b \div g) - a * (r[2] \div g))
        <= (m * (r[2] \div g) * parts) \div 2 ^ (SignificandBits - 1)

\* the float r is the arithmetic mean of the finite floats xs to float32
\* precision: it differs from it by at most Len(xs) parts in 2^23 of the
\* mean of the absolute values of xs
MeanToPrecision(r, xs) ==
    /\ IsFinite(r)
    /\ CloseOver(r, IntSum(UnitsOver(xs, MaxDenominator(xs))),
                 IntSum(AbsUnitsOver(xs, MaxDenominator(xs))),
                 MaxDenominator(xs) * Len(xs), Len(xs),
                 GCD(r[2], MaxDenominator(xs) * Len(xs)))

\* C3 as stated: on every non-empty list of client-held readings,
\* compute_average_temperature returns their arithmetic mean (the float32
\* nearest to the sum of the readings divided by the number of clients); on
\* [2.3, 4.5, 6.7] this is 4.5.
C3_UnweightedMeanExactly ==
    (last.comp = "compute_average_temperature" /\ Len(last.input) >= 1) =>
    /\ Returned(last.result) = ExactMean(last.input)
    /\ last.input = <<F(23, 10), F(45, 10), F(67, 10)>> =>
          Returned(last.result) = F(45, 10)

\* C3 amended: on every non-empty list of client-held readings,
\* compute_average_temperature returns their arithmetic mean to float32
\* precision: the result differs from the sum of the readings divided by
\* the number n of clients by at most n parts in 2^23 of the mean of the
\* readings' absolute values, and it is the float32 nearest to the mean
\* when no addition rounds and n is a power of two; on [2.3, 4.5, 6.7] it
\* is 4.5.
C3_UnweightedMean ==
    (last.comp = "compute_average_temperature" /\ Len(last.input) >= 1) =>
    /\ MeanToPrecision(Returned(last.result), last.input)
    /\ (ExactlySummable(last.input) /\ Len(last.input) \in {1, 2, 4}) =>
          Returned(last.result) = ExactMean(last.input)
    /\ last.input = <<F(23, 10), F(45, 10), F(67, 10)>> =>
          Returned(last.result) = F(45, 10)

\* C3 witness: three clients holding [1., 2., 2.] have been averaged to
\* 6990507/4194304 (1.6666667), which is within float32 precision of 5/3
\* and is not the float32 nearest to it
C3_Witness ==
    /\ last.comp = "compute_average_temperature"
    /\ last.input = <<Num(1), Num(2), Num(2)>>
    /\ Returned(last.result) = <<6990507, 4194304>>
    /\ Returned(last.result) # F(5, 3)
    /\ MeanToPrecision(Returned(last.result), last.input)

\* i is an index of maximum absolute value of the whole-numbered vector g
IsMaxAbs(g, i) == \A j \in 1..Len(g) : Abs(g[j][1]) <= Abs(g[i][1])

\* C4: on every non-empty gradient vector g, top_1_compression returns a
\* vector as long as g whose entry at the index of maximum absolute value
\* (the lowest such index when several tie) is the entry of g there, sign
\* kept, and whose other entries are 0; on [1, 2, 3, 4, -5] the result is
\* [0, 0, 0, 0, -5].
C4_KeepsLargestMagnitude ==
    (last.comp = "top_1_compression" /\ Len(last.input) >= 1) =>
    LET g == last.input
        out == Returned(last.result)
    IN  /\ Len(out) = Len(g)
        /\ \E i \in 1..Len(g) :
              /\ IsMaxAbs(g, i)
              /\ \A j \in 1..(i - 1) : ~IsMaxAbs(g, j)
              /\ out[i] = g[i]
              /\ \A j \in 1..Len(g) : j # i => out[j] = Num(0)
        /\ g = <<Num(1), Num(2), Num(3), Num(4), Num(-5)>> =>
              out = <<Num(0), Num(0), Num(0), Num(0), Num(-5)>>

\* C4 witness: a vector whose largest-magnitude entry is negative and is
\* not its largest entry has been compressed to that entry
C4_Witness ==
    /\ last.comp = "top_1_compression"
    /\ Len(last.input) >= 2
    /\ \E i \in 1..Len(last.input) :
          /\ last.input[i][1] < 0
          /\ Returned(last.result)[i] = last.input[i]
          /\ \E j \in 1..Len(last.input) : last.input[j][1] > 0

\* C5: federated_top_1_compression applies top_1_compression pointwise: the
\* output has as many members as the input (whose vectors may differ in
\* length), member i of the output is top_1_compression of member i of the
\* input, and it is what client i gets when it is the only client.
C5_PointwiseCompression ==
    (last.comp = "federated_top_1_compression") =>
    LET in == last.input
        out == Returned(last.result)
    IN  /\ Len(out) = Len(in)
        /\ \A i \in 1..Len(in) :
              /\ out[i] = top_1_compression(in[i])
              /\ out[i] =
                    Returned(federated_top_1_compression(
                                AtClients(<<in[i]>>)))[1]

\* C5 witness: clients holding vectors of different lengths have received
\* different compressed vectors
C5_Witness ==
    /\ last.comp = "federated_top_1_compression"
    /\ \E i, j \in 1..Len(last.input) :
          /\ Len(last.input[i]) # Len(last.input[j])
          /\ Returned(last.result)[i] # Returned(last.result)[j]
          /\ Len(Returned(last.result)[i]) = Len(last.input[i])

\* C6: on every non-empty sequence of readings, compute_number_obs returns
\* the number of elements and compute_local_average the sum of the
\* elements, accumulated left to right in float32, divided by that number,
\* which is the float32 nearest to their arithmetic mean whenever no
\* addition rounds; on [1., 2., 3., 4., 5.] they return 5 and 3.
C6_CountAndLocalAverage ==
    /\ (last.comp = "compute_number_obs" /\ Len(last.input) >= 1) =>
          /\ Returned(last.result) = Num(Len(last.input))
          /\ last.input = <<Num(1), Num(2), Num(3), Num(4), Num(5)>> =>
                Returned(last.result) = Num(5)
    /\ (last.comp = "compute_local_average" /\ Len(last.input) >= 1) =>
          /\ Returned(last.result) =
                FDiv(FSum(last.input), Num(Len(last.input)))
          /\ ExactlySummable(last.input) =>
                Returned(last.result) =
                    F(IntSum(Whole(last.input)), Len(last.input))
          /\ last.input = <<Num(1), Num(2), Num(3), Num(4), Num(5)>> =>
                Returned(last.result) = Num(3)

\* C6 witness: the notebook's sequence [1., 2., 3., 4., 5.] has been reduced
\* to its average 3
C6_Witness ==
    /\ last.comp = "compute_local_average"
    /\ last.input = <<Num(1), Num(2), Num(3), Num(4), Num(5)>>
    /\ Returned(last.result) = Num(3)

\* C7: compute_average_temperature and federated_global_average consume a
\* value placed at CLIENTS and produce a single value placed at SERVER:
\* whatever the number of clients, the result is one item, not one per
\* client.
C7_ClientsToServer ==
    (last.comp \in {"compute_average_temperature",
                    "federated_global_average"}) =>
    /\ last.placements[1] = CLIENTS
    /\ last.result.placement = SERVER
    /\ last.result.all_equal
    /\ Len(last.result.members) = 1
    /\ Returned(last.result) = last.result.members[1]

\* C7 witness: three clients holding different readings have been averaged
\* into one item
C7_Witness ==
    /\ last.comp = "compute_average_temperature"
    /\ Len(last.input) = 3
    /\ last.input[1] # last.input[2]
    /\ Len(last.result.members) = 1

\* C8: federated_top_1_compression, federated_local_average and
\* federated_number_obs consume data placed at CLIENTS and return their
\* result at those CLIENTS, one member per client, members allowed to
\* differ; no value placed at SERVER appears in them.
C8_ClientsToClients ==
    (last.comp \in {"federated_top_1_compression", "federated_local_average",
                    "federated_number_obs"}) =>
    /\ \A i \in 1..Len(last.placements) : last.placements[i] = CLIENTS
    /\ last.result.placement = CLIENTS
    /\ ~last.result.all_equal
    /\ Len(last.result.members) = Len(last.input)
    /\ Len(Returned(last.result)) = Len(last.input)

\* C8 witness: two or more clients have got back different results
C8_Witness ==
    /\ last.comp = "federated_number_obs"
    /\ Len(last.input) >= 2
    /\ \E i, j \in 1..Len(last.input) :
          Returned(last.result)[i] # Returned(last.result)[j]

\* the permutations of 1..n
Permutations(n) ==
    {p \in [1..n -> 1..n] : \A i, j \in 1..n : p[i] = p[j] => i = j}

\* the list xs rearranged by permutation p
Permute(xs, p) == [i \in 1..Len(xs) |-> xs[p[i]]]

\* the list xs with the items at positions i and j exchanged
Exchange(xs, i, j) == [xs EXCEPT ![i] = xs[j], ![j] = xs[i]]

\* the pairs of different positions of a list
Pairs(xs) == {ij \in (1..Len(xs)) \X (1..Len(xs)) : ij[1] < ij[2]}

\* compute_average_temperature returns result when any two clients of input
\* are exchanged
AverageTemperatureUnderExchanges(input, result) ==
    \A ij \in Pairs(input) :
        compute_average_temperature(AtClients(
            Exchange(input, ij[1], ij[2]))) = result

\* federated_global_average returns result when any two clients of input, or
\* any two readings of one client, are exchanged
GlobalAverageUnderExchanges(input, result) ==
    /\ \A ij \in Pairs(input) :
          federated_global_average(AtClients(
              Exchange(input, ij[1], ij[2]))) = result
    /\ \A i \in 1..Len(input) :
          \A ij \in Pairs(input[i]) :
              federated_global_average(AtClients(
                  [input EXCEPT ![i] = Exchange(@, ij[1], ij[2])])) = result

\* C11 as stated: the result of compute_average_temperature and of
\* federated_global_average is the same when any two clients of the input
\* list are exchanged, and the result of federated_global_average is also
\* the same when any two readings inside one client's sequence are
\* exchanged (exchanges generate every permutation).
C11_PermutationInvariant ==
    /\ (last.comp = "compute_average_temperature") =>
          AverageTemperatureUnderExchanges(last.input, last.result)
    /\ (last.comp = "federated_global_average") =>
          GlobalAverageUnderExchanges(last.input, last.result)

\* C11 amended: the results are the same under those exchanges whenever no
\* float32 sum rounds: the values summed (the clients' readings for
\* compute_average_temperature; each client's readings and the clients'
\* count-weighted averages for federated_global_average) are non-negative
\* and their sum has no more than 24 significant bits at their finest unit.
\* On the notebook's own literals the results are the same on every
\* permutation of the clients and of the readings of any one client.
C11_PermutationInvariantWhenSumsExact ==
    /\ (last.comp = "compute_average_temperature") =>
          /\ ExactlySummable(last.input) =>
                AverageTemperatureUnderExchanges(last.input, last.result)
          /\ last.input \in NotebookLiterals[SENSOR_READINGS_TYPE] =>
                \A p \in Permutations(Len(last.input)) :
                    compute_average_temperature(AtClients(
                        Permute(last.input, p))) = last.result
    /\ (last.comp = "federated_global_average") =>
          /\ ((\A i \in 1..Len(last.input) : ExactlySummable(last.input[i]))
                  /\ ExactlySummable(WeightedAverages(last.input))) =>
                GlobalAverageUnderExchanges(last.input, last.result)
          /\ last.input \in NotebookLiterals[FEDERATED_SEQUENCE_TYPE] =>
                /\ \A p \in Permutations(Len(last.input)) :
                      federated_global_average(AtClients(
                          Permute(last.input, p))) = last.result
                /\ \A i \in 1..Len(last.input) :
                      \A q \in Permutations(Len(last.input[i])) :
                          federated_global_average(AtClients(
                              [last.input EXCEPT ![i] = Permute(@, q)]))
                              = last.result

\* C11 witness: federated_global_average has returned a finite average on
\* clients holding different numbers of readings, one of them holding two
\* different readings, whose sums do not round, and returns it on the
\* reversed list of clients too
C11_Witness ==
    /\ last.comp = "federated_global_average"
    /\ Len(last.input) >= 2
    /\ IsFinite(Returned(last.result))
    /\ Len(last.input[1]) # Len(last.input[Len(last.input)])
    /\ \E i \in 1..Len(last.input) :
          Len(last.input[i]) >= 2 /\ last.input[i][1] # last.input[i][2]
    /\ \A i \in 1..Len(last.input) : ExactlySummable(last.input[i])
    /\ ExactlySummable(WeightedAverages(last.input))
    /\ federated_global_average(AtClients(
          [k \in 1..Len(last.input) |->
              last.input[Len(last.input) + 1 - k]])) = last.result

\* the indices of the non-zero entries of vector v
NonZero(v) == {i \in 1..Len(v) : v[i] # Num(0)}

\* C12: on every non-empty gradient vector, also one in which several
\* entries tie for the largest absolute value, the output of
\* top_1_compression has at most one non-zero entry, and it is all zeros
\* exactly when the input is all zeros.
C12_AtMostOneNonZero ==
    (last.comp = "top_1_compression" /\ Len(last.input) >= 1) =>
    /\ Cardinality(NonZero(Returned(last.result))) <= 1
    /\ (NonZero(Returned(last.result)) = {}) <=> (NonZero(last.input) = {})

\* C12 witness: a vector in which two entries of opposite sign tie for the
\* largest absolute value has been compressed to the first of them
C12_Witness ==
    /\ last.comp = "top_1_compression"
    /\ \E i, j \in 1..Len(last.input) :
          /\ i < j
          /\ IsMaxAbs(last.input, i) /\ IsMaxAbs(last.input, j)
          /\ last.input[i] # last.input[j]
          /\ NonZero(Returned(last.result)) = {i}

\* C13: in compute_local_average the divisor n_obs is the number of elements
\* of the sequence: on a non-empty sequence it is not 0 and the result is a
\* finite average; on the empty sequence it is 0, the division is made all
\* the same, and the result is NaN; federated_global_average returns NaN on
\* every input in which some client holds an empty sequence.
C13_EmptySequenceHasNoAverage ==
    /\ (last.comp = "compute_local_average") =>
          LET n_obs == local_average_reduce(last.input)[2]
          IN  /\ n_obs = Num(Len(last.input))
              /\ Len(last.input) >= 1 =>
                    (n_obs # Num(0) /\ IsFinite(Returned(last.result)))
              /\ Len(last.input) = 0 =>
                    (n_obs = Num(0) /\ IsNaN(Returned(last.result)))
    /\ (last.comp = "federated_global_average"
            /\ \E i \in 1..Len(last.input) : Len(last.input[i]) = 0) =>
          IsNaN(Returned(last.result))

\* C13 witness: federated_global_average has returned NaN on clients of
\* which one holds readings and another holds none
C13_Witness ==
    /\ last.comp = "federated_global_average"
    /\ \E i, j \in 1..Len(last.input) :
          Len(last.input[i]) = 0 /\ Len(last.input[j]) >= 1
    /\ IsNaN(Returned(last.result))

\* C14: top_1_compression is idempotent: on every non-empty gradient vector
\* g, compressing the compressed vector gives the compressed vector again.
C14_Idempotent ==
    (last.comp = "top_1_compression" /\ Len(last.input) >= 1) =>
    top_1_compression(Returned(last.result)) = Returned(last.result)

\* C14 witness: a vector with several non-zero entries has been compressed
\* to a different vector with one non-zero entry, which compresses to itself
C14_Witness ==
    /\ last.comp = "top_1_compression"
    /\ Cardinality(NonZero(last.input)) >= 2
    /\ Returned(last.result) # last.input
    /\ Cardinality(NonZero(Returned(last.result))) = 1
    /\ top_1_compression(Returned(last.result)) = Returned(last.result)

====
